---- MODULE Spec2Model ----
(***************************************************************************)
(* Model of the video ingestion / retrieval engine of multimodal-mcp:      *)
(* the catalog table, the frame and audio views derived from it, the       *)
(* VideoProcessor (add_video, delete_video) behind the process_video and   *)
(* delete_video tools, and the VideoSearchEngine searches.                 *)
(*                                                                         *)
(* The store is Pixeltable.  The frame and audio tables are views over the *)
(* catalog table: their rows are derived from a catalog row when it is     *)
(* inserted and disappear with it when it is deleted.  A view row carries  *)
(* the video_id of its base row.                                           *)
(***************************************************************************)
EXTENDS Integers, Sequences, FiniteSets, TLC

(* ------------------------------ bounds -------------------------------- *)
MaxId == 2          \* video ids 1..MaxId are passed by callers
MaxRows == 3        \* a process_video call starts only below this many rows
MaxTopK == 2        \* top_k arguments are 0..MaxTopK (0: use the default)
MaxQuery == 3       \* the queries of the clip and question tools: 1..MaxQuery

(* -------------------------- program constants -------------------------- *)
MaxSizeKiB == 5242880                  \* 5 * 1024 * 1024 KiB = 5GB
SPEECH_SIMILARITY_SEARCH_TOP_K == 1
CAPTION_SIMILARITY_SEARCH_TOP_K == 1
IMAGE_SIMILARITY_SEARCH_TOP_K == 1
VIDEO_CLIP_SPEECH_SEARCH_TOP_K == 1
VIDEO_CLIP_CAPTION_SEARCH_TOP_K == 1
VIDEO_CLIP_IMAGE_SEARCH_TOP_K == 1
QUESTION_ANSWER_TOP_K == 3
AUDIO_CHUNK_DURATION_SEC == 10
AUDIO_OVERLAP_SEC == 2
DELTA_SECONDS_FRAME_INTERVAL == 5      \* 5.0 seconds
MAX_QUERY_LENGTH == 2000
MAX_SIZE_MB == 10
MIN_SIZE_BYTES == 100
MAX_VIDEO_COUNT == 20

None == 0                              \* Python None / empty string
VideoIds == 1..MaxId
Names == {1, 2}                        \* display names (file stems)
Procs == {1, 2}                        \* request handlers of the server
Main == 1                              \* the handler of the sequential runs

PROCESSING == "processing"
DONE == "done"
FAILED == "failed"
VideoStatus == {PROCESSING, DONE, FAILED}

(* ------------------------------ files ---------------------------------- *)
(* The files a caller may name.  size is in KiB, stem is the display name. *)
(* frames and chunks are what the views derive from the file: for each     *)
(* sampled frame <<similarity of the frame to the image query, similarity  *)
(* of its caption to the text query>>, for each audio chunk the similarity *)
(* of its transcript to the text query.                                    *)
GoodFile(n, sz, fr, ch) ==
    [blank |-> FALSE, inside |-> TRUE, exists |-> TRUE, isfile |-> TRUE,
     readable |-> TRUE, size |-> sz, extok |-> TRUE, streams |-> TRUE,
     decodable |-> TRUE, stem |-> n, frames |-> fr, chunks |-> ch]

BadFile == GoodFile(1, 1000, <<>>, <<>>)

Files ==
    <<GoodFile(1, 1000, <<<<1, 0>>>>, <<1>>),               \* 1: a.mp4
      GoodFile(2, MaxSizeKiB, <<<<0, 1>>, <<1, 1>>>>, <<0>>),  \* 2: b.mkv, 5GB
      [BadFile EXCEPT !.blank = TRUE],                      \* 3: ""
      [BadFile EXCEPT !.inside = FALSE],                    \* 4: /etc/a.mp4
      [BadFile EXCEPT !.exists = FALSE],                    \* 5: missing
      [BadFile EXCEPT !.isfile = FALSE],                    \* 6: a directory
      [BadFile EXCEPT !.readable = FALSE],                  \* 7: mode 000
      [BadFile EXCEPT !.size = 0],                          \* 8: empty file
      [BadFile EXCEPT !.size = MaxSizeKiB + 1],             \* 9: too large
      [BadFile EXCEPT !.extok = FALSE],                     \* 10: a.txt
      [BadFile EXCEPT !.streams = FALSE],                   \* 11: audio only
      [BadFile EXCEPT !.decodable = FALSE],                 \* 12: corrupt
      GoodFile(2, 1000, <<<<1, 1>>>>, <<>>)>>               \* 13: x/b.mp4,
                                                            \* no audio track
Paths == DOMAIN Files
GoodPaths == {1, 2}
SilentPaths == {13}

\* the calls of process_video: the good files with every id, the rejected
\* ones with one id
Calls ==
    (GoodPaths \X (VideoIds \cup {None}))
        \cup ((Paths \ (GoodPaths \cup SilentPaths)) \X {1})

VARIABLES
    catalog,          \* video table: sequence of rows, in insertion order
    frames,           \* frames view: set of derived frame rows
    audio,            \* audio chunks view: set of derived chunk rows
    self_video_id,    \* VideoProcessor.video_id   (shared singleton field)
    self_video_name,  \* VideoProcessor.video_name (shared singleton field)
    proc,             \* per handler: position, arguments, locals, result
    engine,           \* TRUE once a VideoSearchEngine has been constructed
    search,           \* the result of the search that has just run
    deleted,          \* ids deleted by delete_video and not registered since
    clip,             \* the clip / question tool call in flight, its result
    answerer,         \* TRUE once a VideoQuestionAnswerer has been constructed
    extractor,        \* TRUE once a VideoClipExtractor has been constructed
    api,              \* per media_id: the deletion task of the API
    pipeline,         \* the external calls of the insert that is running
    tables,           \* the tables, views, columns and indices of the store
    bg                \* the processing task of the API

vars == <<catalog, frames, audio, self_video_id, self_video_name, proc,
          engine, search, deleted, clip, answerer, extractor, api,
          pipeline, tables, bg>>

store == <<catalog, frames, audio>>

\* what the ingestion, the deletion and the searches leave alone
more == <<pipeline, tables, bg>>
others == <<clip, answerer, extractor, more>>

(* --------------------------- validation -------------------------------- *)
\* VideoPathValidator.validate: TRUE iff no ValidationError is raised
VideoPathValidator_ok(f) ==
    /\ ~f.blank
    /\ f.inside
    /\ f.exists
    /\ f.isfile

\* VideoIdValidator.validate: TRUE iff no ValidationError is raised
VideoIdValidator_ok(v) == v # None

\* _validate_video_file without the check of the extension
validate_video_file_NoExt(f) ==
    /\ f.exists
    /\ f.isfile
    /\ f.readable
    /\ f.size # 0
    /\ ~(f.size > MaxSizeKiB)

\* VideoProcessor._validate_video_file
validate_video_file(f) ==
    /\ f.exists
    /\ f.isfile
    /\ f.readable
    /\ f.size # 0
    /\ ~(f.size > MaxSizeKiB)
    /\ f.extok

\* VideoProcessor._validate_video_format
validate_video_format(f) ==
    /\ f.streams
    /\ f.decodable

\* the checks process_video runs before step 3 of add_video
Validated(path, v) ==
    /\ VideoPathValidator_ok(Files[path])
    /\ VideoIdValidator_ok(v)
    /\ validate_video_file(Files[path])
    /\ validate_video_format(Files[path])

(* --------------------------- table operations -------------------------- *)
\* table.where(video_name == n).collect()
WhereName(n) == SelectSeq(catalog, LAMBDA r : r.video_name = n)

\* table.where(video_id == v).collect()
WhereId(v) == SelectSeq(catalog, LAMBDA r : r.video_id = v)

\* some row of the catalog carries video_id v
HasId(v) == \E i \in DOMAIN catalog : catalog[i].video_id = v

\* some row of display name n has a status in S
HasStatus(n, S) ==
    \E i \in DOMAIN catalog :
        catalog[i].video_name = n /\ catalog[i].status \in S

\* A view row names its base row by rid, the position of the base row in
\* the catalog; a delete renumbers the rows that stay.
Kept(v) == {i \in DOMAIN catalog : catalog[i].video_id # v}
NewRid(v, i) == Cardinality({j \in Kept(v) : j <= i})

\* a delete whose where clause matches no row
DeleteWhereId_NoMatch(v) == UNCHANGED store

\* table.delete(where = video_id == v): the rows and the view rows derived
\* from them
DeleteWhereId(v) ==
    /\ catalog' = SelectSeq(catalog, LAMBDA r : r.video_id # v)
    /\ frames' = {[f EXCEPT !.rid = NewRid(v, f.rid)] :
                     f \in {g \in frames : g.rid \in Kept(v)}}
    /\ audio' = {[a EXCEPT !.rid = NewRid(v, a.rid)] :
                    a \in {g \in audio : g.rid \in Kept(v)}}

\* table.where(video_id == v).update({status: s})
UpdateStatus(v, s) ==
    /\ catalog' = [i \in DOMAIN catalog |->
                     IF catalog[i].video_id = v
                     THEN [catalog[i] EXCEPT !.status = s]
                     ELSE catalog[i]]
    /\ UNCHANGED <<frames, audio>>

\* table.insert of one row for the file at path: the views derive the
\* frames and the audio chunks of the file from it
InsertRow(v, path, n) ==
    /\ catalog' = Append(catalog, [video_id |-> v, video |-> path,
                                   video_name |-> n, status |-> PROCESSING])
    /\ frames' = frames \cup
           {[rid |-> Len(catalog) + 1, video_id |-> v, pos |-> k,
             vsim |-> Files[path].frames[k][1],
             csim |-> Files[path].frames[k][2]]
               : k \in DOMAIN Files[path].frames}
    /\ audio' = audio \cup
           {[rid |-> Len(catalog) + 1, video_id |-> v, pos |-> k,
             sim |-> Files[path].chunks[k]] : k \in DOMAIN Files[path].chunks}

(* ------------------------------ Init ----------------------------------- *)
\* pc, op, path, vid, old and ret are the handler's position, arguments,
\* local old_video_id and result.  The other fields record, for the
\* properties: whether a Done / a not-Done row of the display name and a
\* row of the video_id existed when the call started, whether a step of
\* the call changed a table, which step raised, and whether the call's
\* insert wrote its row.
IdleProc == [pc |-> "idle", op |-> "none", path |-> 1, vid |-> None,
             old |-> None, ret |-> "none",
             preDone |-> FALSE, preNotDone |-> FALSE, preHasId |-> FALSE,
             touched |-> FALSE, raised |-> "none", registered |-> FALSE,
             overlap |-> FALSE]

NoSearch == [kind |-> "none", covers |-> {}, results |-> <<>>,
             within |-> TRUE, inscope |-> TRUE, complete |-> TRUE]

\* no tool call in flight.  tool, pc: the tool and the position of its
\* call; sp, cp: what the speech and the caption search returned; best: the
\* result the clip is cut from; cut: the file and the window that were
\* cut; answer: the entries of an answer; result, text: the ToolResult's
\* type and which content it carries; raised: the step that raised;
\* wrote: whether a clip file was written.  bad, inited, searched, m, tops,
\* norow and stray record facts of the call for the properties.
NoClip == [tool |-> "none", pc |-> "idle", sp |-> <<>>, cp |-> <<>>,
           best |-> <<>>, cut |-> <<>>, answer |-> <<>>, result |-> "none",
           text |-> "none", raised |-> "none", wrote |-> FALSE,
           bad |-> FALSE, inited |-> FALSE, searched |-> FALSE, m |-> 0,
           tops |-> FALSE, norow |-> FALSE, stray |-> FALSE]

\* the deletion tasks of the API
Tasks == {1, 2}

\* a task that was not requested.  pc: its position; media_id, cleanup_db:
\* its arguments; index, disk: how its two phases went; final: the status
\* it wrote last.
NoTask == [pc |-> "none", media_id |-> None, cleanup_db |-> FALSE,
           index |-> "none", disk |-> "none", final |-> "none"]

\* the API: its tasks, app.state.bg_task_states, and which media files are
\* on disk
NoApi == [task |-> [t \in Tasks |-> NoTask],
          bg_task_states |-> [m \in VideoIds |-> "none"],
          file |-> [m \in VideoIds |-> TRUE]]

\* no insert is running.  pc: the position of the insert; path: the file
\* of the row; done: the calls that returned; cur: the call in flight;
\* attempt: how many times the call in flight was made; failures: how many
\* calls of this insert raised.
NoPipeline == [pc |-> "idle", path |-> 1, done |-> {}, cur |-> <<>>,
               attempt |-> 0, failures |-> 0]

\* a store in which nothing was created.  pc, i: the position of the setup
\* that is running; has: the tables, views, columns and indices that exist;
\* error: why the last setup raised.
NoTables == [pc |-> "idle", i |-> 0, has |-> {}, error |-> "none"]

\* no processing task was requested.  pc: the position of the task;
\* media_id, path: its arguments; tool: how the call of the process_video
\* tool went; final: the status the task wrote last.
NoBg == [pc |-> "none", media_id |-> None, path |-> 1, tool |-> "none",
         final |-> "none"]

Init ==
    /\ catalog = <<>>
    /\ frames = {}
    /\ audio = {}
    /\ self_video_id = None
    /\ self_video_name = None
    /\ proc = [p \in Procs |-> IdleProc]
    /\ engine = FALSE
    /\ search = NoSearch
    /\ deleted = {}
    /\ clip = NoClip
    /\ answerer = FALSE
    /\ extractor = FALSE
    /\ api = NoApi
    /\ pipeline = NoPipeline
    /\ tables = NoTables
    /\ bg = NoBg

Free(p) == proc[p].pc \in {"idle", "done"}

Goto(p, l) == proc' = [proc EXCEPT ![p].pc = l]
Return(p, r) == proc' = [proc EXCEPT ![p].pc = "done", ![p].ret = r]

\* the same after a step that wrote to the catalog: touched records whether
\* the write changed a table
Changed == <<catalog', frames', audio'>> # store
GotoT(p, l) ==
    proc' = [proc EXCEPT ![p].pc = l, ![p].touched = @ \/ Changed]
ReturnT(p, r) ==
    proc' = [proc EXCEPT ![p].pc = "done", ![p].ret = r,
                         ![p].touched = @ \/ Changed]
Raise(p, at) ==
    proc' = [proc EXCEPT ![p].pc = "exc_cleanup", ![p].raised = at]

(* ===================== process_video / add_video ====================== *)
\* The handlers after handler p started the call recorded in rec: overlap
\* marks the calls that ran while a call of another handler was running.
Overlapping(p, rec) ==
    [q \in Procs |->
        IF q = p
        THEN [rec EXCEPT !.overlap = \E r \in Procs \ {p} : ~Free(r)]
        ELSE IF Free(q) THEN proc[q]
             ELSE [proc[q] EXCEPT !.overlap = TRUE]]

\* tools.process_video up to step 3 of add_video: the path and id
\* validators, _validate_video_file, _validate_video_format, then
\* self.video_name = stem.  A failed validation returns False at once.
process_video(p, path, v) ==
    /\ Free(p)
    /\ search = NoSearch
    /\ Len(catalog) < MaxRows
    /\ IF Validated(path, v)
       THEN /\ self_video_name' = Files[path].stem
            /\ proc' = Overlapping(p,
                   [IdleProc EXCEPT
                       !.pc = "ensure", !.op = "add", !.path = path,
                       !.vid = v,
                       !.preDone = HasStatus(Files[path].stem, {DONE}),
                       !.preNotDone = HasStatus(Files[path].stem,
                                                {PROCESSING, FAILED}),
                       !.preHasId = HasId(v)])
       ELSE /\ proc' = [proc EXCEPT ![p] =
                   [IdleProc EXCEPT !.pc = "done", !.op = "add",
                                    !.path = path, !.vid = v,
                                    !.ret = "false"]]
            /\ UNCHANGED self_video_name
    /\ search' = NoSearch
    /\ UNCHANGED <<store, self_video_id, engine, deleted>>
    /\ UNCHANGED <<others, api>>

\* step 4: _ensure_dirs_and_tables_exist (the tables exist since __init__)
EnsureTables(p) ==
    /\ proc[p].pc = "ensure"
    /\ Goto(p, "check")
    /\ search' = NoSearch
    /\ UNCHANGED <<store, self_video_id, self_video_name, engine, deleted>>
    /\ UNCHANGED <<others, api>>

\* _is_already_added comparing the status with the wrong member
is_already_added_Processing ==
    LET existing == WhereName(self_video_name)
    IN  IF existing = <<>> THEN FALSE ELSE existing[1].status = PROCESSING

\* _is_already_added: only the first row of that name is looked at
is_already_added ==
    LET existing == WhereName(self_video_name)
    IN  IF existing = <<>> THEN FALSE ELSE existing[1].status = DONE

\* step 5: the already-processed check
CheckAlreadyAdded(p) ==
    /\ proc[p].pc = "check"
    /\ IF is_already_added THEN Return(p, "true") ELSE Goto(p, "collect")
    /\ search' = NoSearch
    /\ UNCHANGED <<store, self_video_id, self_video_name, engine, deleted>>
    /\ UNCHANGED <<others, api>>

\* step 6: look for an incomplete record of that name
CollectExisting(p) ==
    /\ proc[p].pc = "collect"
    /\ LET existing == WhereName(self_video_name)
       IN  IF existing # <<>>
           THEN proc' = [proc EXCEPT ![p].pc = "cleanup_old",
                                     ![p].old = existing[1].video_id]
           ELSE Goto(p, "assign")
    /\ search' = NoSearch
    /\ UNCHANGED <<store, self_video_id, self_video_name, engine, deleted>>
    /\ UNCHANGED <<others, api>>

\* _cleanup_video(old_video_id)
CleanupOld(p) ==
    /\ proc[p].pc = "cleanup_old"
    /\ DeleteWhereId(proc[p].old)
    /\ GotoT(p, "assign")
    /\ search' = NoSearch
    /\ UNCHANGED <<self_video_id, self_video_name, engine, deleted>>
    /\ UNCHANGED <<others, api>>

\* step 7, first half: self.video_id = video_id
SetVideoId(p) ==
    /\ proc[p].pc = "assign"
    /\ self_video_id' = proc[p].vid
    /\ Goto(p, "insert")
    /\ search' = NoSearch
    /\ UNCHANGED <<store, self_video_name, engine, deleted>>
    /\ UNCHANGED <<others, api>>

\* step 7, second half: video_table.insert succeeds; the frame and audio
\* rows are computed with it
InsertVideo(p) ==
    /\ proc[p].pc = "insert"
    /\ InsertRow(self_video_id, proc[p].path, self_video_name)
    /\ proc' = [proc EXCEPT ![p].pc = "mark_done", ![p].registered = TRUE,
                            ![p].touched = TRUE]
    /\ deleted' = deleted \ {self_video_id}
    /\ search' = NoSearch
    /\ UNCHANGED <<self_video_id, self_video_name, engine>>
    /\ UNCHANGED <<others, api>>

\* video_table.insert raises (an extraction, transcription, captioning or
\* embedding call failed): the insert is aborted and writes nothing
InsertVideoRaise(p) ==
    /\ proc[p].pc = "insert"
    /\ Raise(p, "insert")
    /\ search' = NoSearch
    /\ UNCHANGED <<store, self_video_id, self_video_name, engine, deleted>>
    /\ UNCHANGED <<others, api>>

\* _mark_done: every row with self.video_id becomes Done
mark_done == UpdateStatus(self_video_id, DONE)

\* step 8
MarkDone(p) ==
    /\ proc[p].pc = "mark_done"
    /\ mark_done
    /\ ReturnT(p, "true")
    /\ search' = NoSearch
    /\ UNCHANGED <<self_video_id, self_video_name, engine, deleted>>
    /\ UNCHANGED <<others, api>>

\* step 8, the update raises
MarkDoneRaise(p) ==
    /\ proc[p].pc = "mark_done"
    /\ Raise(p, "mark_done")
    /\ search' = NoSearch
    /\ UNCHANGED <<store, self_video_id, self_video_name, engine, deleted>>
    /\ UNCHANGED <<others, api>>

\* a handler that purges the id of the replaced record
HandlerVideoId_Old(p) == proc[p].old

\* the id the exception handler of add_video purges and marks
HandlerVideoId(p) == self_video_id

\* except: if self.video_id: self._cleanup_video(self.video_id)
ExcCleanup(p) ==
    /\ proc[p].pc = "exc_cleanup"
    /\ IF HandlerVideoId(p) # None
       THEN DeleteWhereId(HandlerVideoId(p))
       ELSE UNCHANGED store
    /\ GotoT(p, "exc_mark")
    /\ search' = NoSearch
    /\ UNCHANGED <<self_video_id, self_video_name, engine, deleted>>
    /\ UNCHANGED <<others, api>>

\* except: if self.video_id: self._mark_failed(); return False
MarkFailed(p) ==
    /\ proc[p].pc = "exc_mark"
    /\ IF HandlerVideoId(p) # None
       THEN UpdateStatus(HandlerVideoId(p), FAILED)
       ELSE UNCHANGED store
    /\ ReturnT(p, "false")
    /\ search' = NoSearch
    /\ UNCHANGED <<self_video_id, self_video_name, engine, deleted>>
    /\ UNCHANGED <<others, api>>

(* ------------- store operations of add_video that raise ---------------- *)
EnsureTablesRaise(p) ==
    /\ proc[p].pc = "ensure"
    /\ Raise(p, "ensure")
    /\ search' = NoSearch
    /\ UNCHANGED <<store, self_video_id, self_video_name, engine, deleted>>
    /\ UNCHANGED <<others, api>>

CheckAlreadyAddedRaise(p) ==
    /\ proc[p].pc = "check"
    /\ Raise(p, "check")
    /\ search' = NoSearch
    /\ UNCHANGED <<store, self_video_id, self_video_name, engine, deleted>>
    /\ UNCHANGED <<others, api>>

CollectExistingRaise(p) ==
    /\ proc[p].pc = "collect"
    /\ Raise(p, "collect")
    /\ search' = NoSearch
    /\ UNCHANGED <<store, self_video_id, self_video_name, engine, deleted>>
    /\ UNCHANGED <<others, api>>

\* _cleanup_video swallows the error of the delete
CleanupOldRaise(p) ==
    /\ proc[p].pc = "cleanup_old"
    /\ proc' = [proc EXCEPT ![p].pc = "assign", ![p].raised = "cleanup_old"]
    /\ search' = NoSearch
    /\ UNCHANGED <<store, self_video_id, self_video_name, engine, deleted>>
    /\ UNCHANGED <<others, api>>

ExcCleanupRaise(p) ==
    /\ proc[p].pc = "exc_cleanup"
    /\ HandlerVideoId(p) # None
    /\ Goto(p, "exc_mark")
    /\ search' = NoSearch
    /\ UNCHANGED <<store, self_video_id, self_video_name, engine, deleted>>
    /\ UNCHANGED <<others, api>>

\* _mark_failed swallows the error of the update
MarkFailedRaise(p) ==
    /\ proc[p].pc = "exc_mark"
    /\ HandlerVideoId(p) # None
    /\ Return(p, "false")
    /\ search' = NoSearch
    /\ UNCHANGED <<store, self_video_id, self_video_name, engine, deleted>>
    /\ UNCHANGED <<others, api>>

(* ============================ delete_video ============================= *)
\* existing = video_table.where(video_id == v).collect(); if not existing
video_exists_Always(v) == TRUE
video_exists(v) == WhereId(v) # <<>>

\* tools.delete_video and VideoProcessor.delete_video
delete_video(p, v) ==
    /\ Free(p)
    /\ search = NoSearch
    /\ IF VideoIdValidator_ok(v) /\ video_exists(v)
       THEN /\ DeleteWhereId(v)
            /\ deleted' = deleted \cup {v}
            /\ proc' = [proc EXCEPT ![p] =
                   [IdleProc EXCEPT !.pc = "done", !.op = "del", !.vid = v,
                                    !.ret = "true", !.preHasId = HasId(v),
                                    !.touched = Changed]]
       ELSE /\ UNCHANGED <<store, deleted>>
            /\ proc' = [proc EXCEPT ![p] =
                   [IdleProc EXCEPT !.pc = "done", !.op = "del", !.vid = v,
                                    !.ret = "false", !.preHasId = HasId(v)]]
    /\ search' = NoSearch
    /\ UNCHANGED <<self_video_id, self_video_name, engine>>
    /\ UNCHANGED others

\* server.tool_process_video: the process_video tool as a handler that is
\* idle starts it for a request
tool_process_video(p, path, v) ==
    /\ proc[p].pc = "idle"
    /\ process_video(p, path, v)

\* server.tool_delete_video: the delete_video tool as the MCP clients of
\* the server call it
tool_delete_video(p, v) ==
    /\ delete_video(p, v)
    /\ UNCHANGED api

\* the existence query raises: the outer except returns False
delete_video_CollectRaise(p, v) ==
    /\ Free(p)
    /\ VideoIdValidator_ok(v)
    /\ proc' = [proc EXCEPT ![p] =
           [IdleProc EXCEPT !.pc = "done", !.op = "del", !.vid = v,
                            !.ret = "false", !.preHasId = HasId(v),
                            !.raised = "collect"]]
    /\ search' = NoSearch
    /\ UNCHANGED <<store, self_video_id, self_video_name, engine, deleted>>
    /\ UNCHANGED <<others, api>>

\* the delete inside _cleanup_video raises and is swallowed: still True
delete_video_CleanupRaise(p, v) ==
    /\ Free(p)
    /\ VideoIdValidator_ok(v)
    /\ video_exists(v)
    /\ deleted' = deleted \cup {v}
    /\ proc' = [proc EXCEPT ![p] =
           [IdleProc EXCEPT !.pc = "done", !.op = "del", !.vid = v,
                            !.ret = "true", !.preHasId = TRUE,
                            !.raised = "cleanup"]]
    /\ search' = NoSearch
    /\ UNCHANGED <<store, self_video_id, self_video_name, engine>>
    /\ UNCHANGED <<others, api>>

(* ========================= VideoSearchEngine =========================== *)
\* VideoSearchEngine.__init__: raises unless all three tables hold rows
InitEngine ==
    /\ ~engine
    /\ Len(catalog) # 0
    /\ frames # {}
    /\ audio # {}
    /\ engine' = TRUE
    /\ search' = NoSearch
    /\ UNCHANGED <<store, self_video_id, self_video_name, proc, deleted>>
    /\ UNCHANGED <<others, api>>

\* a selected view row with its similarity; gone records, for the
\* properties, whether its video_id had been deleted when the search ran
Hit(seg, s) ==
    [video_id |-> seg.video_id, rid |-> seg.rid, pos |-> seg.pos,
     similarity |-> s, gone |-> seg.video_id \in deleted]

\* a search that ignores video_ids
Scoped_None(S, video_ids) == S

\* if video_ids: results.where(video_id.isin(video_ids))
Scoped(S, video_ids) ==
    IF video_ids # {} THEN {h \in S : h.video_id \in video_ids} ELSE S

\* order_by(sims, asc=False).limit(k): every order of equal scores
RECURSIVE OrderLimit(_, _)
OrderLimit(S, k) ==
    IF S = {} \/ k = 0 THEN {<<>>}
    ELSE UNION {{<<x>> \o t : t \in OrderLimit(S \ {x}, k - 1)} :
                 x \in {y \in S : \A z \in S : y.similarity >= z.similarity}}

\* top_k = top_k or settings.<default>
TopK(top_k, default) == IF top_k # 0 THEN top_k ELSE default

\* the segments the caller asked for: those of video_ids, all of them when
\* video_ids is empty or absent
Asked(S, video_ids) == {h \in S : video_ids = {} \/ h.video_id \in video_ids}

\* no segment that was asked for and left out scores above a returned one,
\* and segments are left out only when the limit is reached
BestOfAsked(res, S, top_k, default, video_ids) ==
    LET limit == IF top_k = 0 THEN default ELSE top_k
        got == {res[i] : i \in DOMAIN res}
        left == Asked(S, video_ids) \ got
    IN  /\ left # {} => Len(res) = limit
        /\ \A h \in left : \A g \in got : g.similarity >= h.similarity

\* search holds one result at a time: it is handed to the caller, and any
\* later step of a handler clears it.  For the properties it records:
\* covers, the deleted ids the search ranged over (all of them when it is
\* unscoped); within, that the result is no longer than the limit asked
\* for; inscope, that every returned segment was asked for; complete, that
\* the result is the best of the segments asked for.
SearchOutcomes(kind, S, top_k, default, video_ids) ==
    {[kind |-> kind,
      covers |-> {v \in deleted : video_ids = {} \/ v \in video_ids},
      results |-> res,
      within |-> Len(res) <= (IF top_k = 0 THEN default ELSE top_k),
      inscope |-> \A i \in DOMAIN res : res[i] \in Asked(S, video_ids),
      complete |-> BestOfAsked(res, S, top_k, default, video_ids)] :
        res \in OrderLimit(Scoped(S, video_ids), TopK(top_k, default))}

\* one search of the engine
Searched(kind, S, top_k, default, video_ids) ==
    /\ engine
    /\ search = NoSearch
    /\ search' \in SearchOutcomes(kind, S, top_k, default, video_ids)
    /\ UNCHANGED <<store, self_video_id, self_video_name, proc, engine,
                   deleted>>
    /\ UNCHANGED <<others, api>>

\* a search of the engine with any top_k and any video_ids a caller passes
SearchCall(kind, S, default) ==
    /\ engine
    /\ search = NoSearch
    /\ search' \in UNION {SearchOutcomes(kind, S, k, default, ids) :
                             k \in 0..MaxTopK, ids \in SUBSET VideoIds}
    /\ UNCHANGED <<store, self_video_id, self_video_name, proc, engine,
                   deleted>>
    /\ UNCHANGED <<others, api>>

search_by_speech(top_k, video_ids) ==
    Searched("speech", {Hit(a, a.sim) : a \in audio}, top_k,
             SPEECH_SIMILARITY_SEARCH_TOP_K, video_ids)

search_by_image(top_k, video_ids) ==
    Searched("image", {Hit(f, f.vsim) : f \in frames}, top_k,
             IMAGE_SIMILARITY_SEARCH_TOP_K, video_ids)

search_by_caption(top_k, video_ids) ==
    Searched("caption", {Hit(f, f.csim) : f \in frames}, top_k,
             CAPTION_SIMILARITY_SEARCH_TOP_K, video_ids)

\* the result of a search goes to its caller: the next call may start
SearchReturns ==
    /\ search # NoSearch
    /\ search' = NoSearch
    /\ UNCHANGED <<store, self_video_id, self_video_name, proc, engine,
                   deleted>>
    /\ UNCHANGED <<others, api>>

\* the calls of the three searches
SpeechSearchCall ==
    SearchCall("speech", {Hit(a, a.sim) : a \in audio},
               SPEECH_SIMILARITY_SEARCH_TOP_K)

ImageSearchCall ==
    SearchCall("image", {Hit(f, f.vsim) : f \in frames},
               IMAGE_SIMILARITY_SEARCH_TOP_K)

CaptionSearchCall ==
    SearchCall("caption", {Hit(f, f.csim) : f \in frames},
               CAPTION_SIMILARITY_SEARCH_TOP_K)

\* get_speech_info: as search_by_speech, returning the transcript text
get_speech_info(top_k, video_ids) ==
    Searched("speech_info", {Hit(a, a.sim) : a \in audio}, top_k,
             SPEECH_SIMILARITY_SEARCH_TOP_K, video_ids)

\* get_caption_info: as search_by_caption, returning the caption text
get_caption_info(top_k, video_ids) ==
    Searched("caption_info", {Hit(f, f.csim) : f \in frames}, top_k,
             CAPTION_SIMILARITY_SEARCH_TOP_K, video_ids)

(* ===================== clip and question tools ========================= *)
\* The text queries and query images a caller may send.  Query 1 is the one
\* the similarities of Files are given for; every further query matches
\* every segment one step less, so that the similarities the embeddings
\* give are positive, zero and negative.
Queries == 1..MaxQuery
Sim(q, s) == s + 1 - q

\* a text query as the caller sends it: raw, its length; len, its length
\* after strip(); q, what it asks
UserQueries ==
    {[raw |-> r[1], len |-> r[2], q |-> 1] :
        r \in {<<0, 0>>, <<3, 0>>,
               <<MAX_QUERY_LENGTH + 1, MAX_QUERY_LENGTH + 1>>}}
      \cup {[raw |-> r[1], len |-> r[2], q |-> q] :
               r \in {<<1, 1>>, <<MAX_QUERY_LENGTH + 2, MAX_QUERY_LENGTH>>},
               q \in Queries}

\* UserQueryValidator.validate: TRUE iff no ValidationError is raised
UserQueryValidator_NoMax(uq) == ~(uq.raw = 0 \/ uq.len = 0)

UserQueryValidator_ok(uq) ==
    /\ ~(uq.raw = 0 \/ uq.len = 0)
    /\ ~(uq.len > MAX_QUERY_LENGTH)

\* a base64 string as the caller sends it: raw, len as for a query;
\* decodes, whether base64.b64decode returns; dlen, the length of what it
\* returns; q, the picture
MaxEncoded == MAX_SIZE_MB * 1024 * 1024
Image(r, l, ok, d, q) ==
    [raw |-> r, len |-> l, decodes |-> ok, dlen |-> d, q |-> q]

Images ==
    {Image(0, 0, TRUE, 0, 1),
     Image(2, 0, TRUE, 0, 1),
     Image(MaxEncoded + 1, MaxEncoded + 1, TRUE, MaxEncoded, 1),
     Image(200, 200, FALSE, 0, 1),
     Image(132, 132, TRUE, MIN_SIZE_BYTES - 1, 1)}
      \cup UNION {{Image(MaxEncoded, MaxEncoded, TRUE,
                         (MaxEncoded \div 4) * 3, q),
                   Image(136, 136, TRUE, MIN_SIZE_BYTES, q)} : q \in Queries}

\* ImageBase64Validator.validate: TRUE iff no ValidationError is raised
ImageBase64Validator_ok(im) ==
    /\ ~(im.raw = 0 \/ im.len = 0)
    /\ ~(im.len > MaxEncoded)
    /\ im.decodes
    /\ ~(im.dlen < MIN_SIZE_BYTES)

\* a video_ids argument: n, the length of the list (0: None or []); ids,
\* its entries that are not blank
VideoLists ==
    {[n |-> Cardinality(s), ids |-> s] : s \in SUBSET VideoIds}
        \cup {[n |-> MAX_VIDEO_COUNT, ids |-> {}],
              [n |-> MAX_VIDEO_COUNT, ids |-> {1}],
              [n |-> MAX_VIDEO_COUNT + 1, ids |-> {1}]}

\* VideoNamesValidator.validate: TRUE iff no ValidationError is raised
VideoNamesValidator_ok(vl) == ~(vl.n > MAX_VIDEO_COUNT)

\* the caller passed a list that is not empty and a search of the call
\* returned a segment of a video that is not on it
Stray(vl, results) ==
    /\ vl.n # 0
    /\ \E i \in DOMAIN results : results[i].video_id \notin vl.ids

\* the inputs the tools are to reject
BadQuery(uq) == uq.raw = 0 \/ uq.len = 0 \/ uq.len > 2000
BadImage(im) ==
    \/ im.raw = 0
    \/ im.len = 0
    \/ im.len > 10 * 1024 * 1024
    \/ ~im.decodes
    \/ im.dlen < 100
BadList(vl) == vl.n > 20

\* the views' columns: the k-th audio chunk of a file starts every
\* chunk duration less the overlap, the k-th sampled frame is at pos_msec
start_time_msec(k) ==
    (k - 1) * (AUDIO_CHUNK_DURATION_SEC - AUDIO_OVERLAP_SEC) * 1000
end_time_msec(k) == start_time_msec(k) + AUDIO_CHUNK_DURATION_SEC * 1000
pos_msec(k) == (k - 1) * 4000

DeltaMsec == DELTA_SECONDS_FRAME_INTERVAL * 1000

\* the dict search_by_speech returns for a row (times in milliseconds);
\* signal and pos_msec record, for the properties, the search it comes
\* from and the position of its frame
SpeechResult(h) ==
    [video_id |-> h.video_id, start_time |-> start_time_msec(h.pos),
     end_time |-> end_time_msec(h.pos), similarity |-> h.similarity,
     signal |-> "speech", pos_msec |-> 0]

\* a frame result whose window is the frame's position alone
FrameResult_NoDelta(h, sig) ==
    [video_id |-> h.video_id, start_time |-> pos_msec(h.pos),
     end_time |-> pos_msec(h.pos), similarity |-> h.similarity,
     signal |-> sig, pos_msec |-> pos_msec(h.pos)]

\* the dict search_by_image and search_by_caption return for a row
FrameResult(h, sig) ==
    [video_id |-> h.video_id, start_time |-> pos_msec(h.pos) - DeltaMsec,
     end_time |-> pos_msec(h.pos) + DeltaMsec, similarity |-> h.similarity,
     signal |-> sig, pos_msec |-> pos_msec(h.pos)]

\* the rows a search of the engine may return
SearchResults(S, top_k, default, video_ids) ==
    OrderLimit(Scoped(S, video_ids), TopK(top_k, default))

SpeechHits(q) == {Hit(a, Sim(q, a.sim)) : a \in audio}
CaptionHits(q) == {Hit(f, Sim(q, f.csim)) : f \in frames}
ImageHits(q) == {Hit(f, Sim(q, f.vsim)) : f \in frames}

\* VideoSearchEngine() inside VideoClipExtractor.__init__ and
\* VideoQuestionAnswerer.__init__ returns: the singleton exists, or the
\* three tables hold rows
ExtractorReady == extractor \/ (Len(catalog) # 0 /\ frames # {} /\ audio # {})
AnswererReady == answerer \/ (Len(catalog) # 0 /\ frames # {} /\ audio # {})

\* a tool that lets what is no ValidationError and no ClipExtractionError
\* through to its caller
ResultType_Uncaught(at) ==
    IF at \in {"search", "select"} THEN "raised" ELSE "text"

\* the type of the ToolResult when the step `at` of a call raised: every
\* except clause of the tools and of the extractor returns a text
ResultType(at) == "text"

\* the content of that ToolResult
Message(at) ==
    CASE at = "validation" -> "invalid"
      [] at = "init" -> "unavailable"
      [] at = "lookup" -> "notfound"
      [] at = "cut" -> "cutfailed"
      [] OTHER -> "unexpected"

Fails(c, at) ==
    [c EXCEPT !.pc = "done", !.result = ResultType(at),
              !.text = Message(at), !.raised = at]

\* results[0] as a list of one result: <<>> when the list is empty and the
\* subscript raises IndexError
First(results) == IF results = <<>> THEN <<>> ELSE <<results[1]>>

\* _select_best_clip with a strict comparison
select_best_clip_Strict(sp, cp) ==
    LET speech_sim == IF sp # <<>> THEN sp[1].similarity ELSE 0
        caption_sim == IF cp # <<>> THEN cp[1].similarity ELSE 0
    IN  IF speech_sim > caption_sim THEN First(sp)
        ELSE First(cp)

\* VideoClipExtractor._select_best_clip: <<>> when [0] of an empty list
\* raises IndexError
select_best_clip(sp, cp) ==
    LET speech_sim == IF sp # <<>> THEN sp[1].similarity ELSE 0
        caption_sim == IF cp # <<>> THEN cp[1].similarity ELSE 0
    IN  IF speech_sim >= caption_sim THEN First(sp)
        ELSE First(cp)

\* VideoClipExtractor.extract_from_text_query up to the lookup of the path
extract_from_text_query(c, sp, cp) ==
    IF sp = <<>> /\ cp = <<>>
    THEN [c EXCEPT !.pc = "done", !.result = "text", !.text = "nomatch",
                   !.sp = sp, !.cp = cp]
    ELSE IF select_best_clip(sp, cp) = <<>>
         THEN Fails([c EXCEPT !.sp = sp, !.cp = cp], "select")
         ELSE [c EXCEPT !.pc = "extract", !.sp = sp, !.cp = cp,
                        !.best = select_best_clip(sp, cp)]

\* tools.get_video_clip_from_user_query up to the lookup of the path
get_video_clip_from_user_query(uq, vl) ==
    /\ clip.pc = "idle"
    /\ LET ok == UserQueryValidator_ok(uq) /\ VideoNamesValidator_ok(vl)
           call == [NoClip EXCEPT !.tool = "text",
                                  !.bad = BadQuery(uq) \/ BadList(vl)]
       IN  IF ~ok
           THEN /\ clip' = Fails(call, "validation")
                /\ UNCHANGED extractor
           ELSE IF ~ExtractorReady
           THEN /\ clip' = Fails(call, "init")
                /\ UNCHANGED extractor
           ELSE /\ extractor' = TRUE
                /\ \E s \in SearchResults(SpeechHits(uq.q),
                                VIDEO_CLIP_SPEECH_SEARCH_TOP_K,
                                SPEECH_SIMILARITY_SEARCH_TOP_K, vl.ids),
                      c \in SearchResults(CaptionHits(uq.q),
                                VIDEO_CLIP_CAPTION_SEARCH_TOP_K,
                                CAPTION_SIMILARITY_SEARCH_TOP_K, vl.ids) :
                     clip' = extract_from_text_query(
                        [call EXCEPT !.inited = ~extractor,
                                     !.searched = TRUE,
                                     !.stray = Stray(vl, s \o c)],
                        [i \in DOMAIN s |-> SpeechResult(s[i])],
                        [i \in DOMAIN c |-> FrameResult(c[i], "caption")])
    /\ search' = NoSearch
    /\ UNCHANGED <<store, self_video_id, self_video_name, proc, engine,
                   deleted, answerer, api, more>>

\* a search of the engine raises inside the extractor or the answerer
SearchRaise(tool) ==
    /\ clip.pc = "idle"
    /\ clip' = Fails([NoClip EXCEPT !.tool = tool, !.searched = TRUE],
                     "search")
    /\ search' = NoSearch
    /\ UNCHANGED <<store, self_video_id, self_video_name, proc, engine,
                   deleted, api, more>>

get_video_clip_from_user_query_SearchRaise ==
    /\ extractor
    /\ SearchRaise("text")
    /\ UNCHANGED <<extractor, answerer>>

\* VideoClipExtractor.extract_from_image up to the lookup of the path
extract_from_image(c, results) ==
    IF results = <<>>
    THEN [c EXCEPT !.pc = "done", !.result = "text", !.text = "novisual"]
    ELSE [c EXCEPT !.pc = "extract", !.best = First(results)]

\* tools.get_video_clip_from_image up to the lookup of the path.  m and
\* tops record the number of frames in the scope and that the result's
\* first row is one of them and scores highest among them.
get_video_clip_from_image(im, vl) ==
    /\ clip.pc = "idle"
    /\ LET ok == ImageBase64Validator_ok(im) /\ VideoNamesValidator_ok(vl)
           call == [NoClip EXCEPT !.tool = "image",
                                  !.bad = BadImage(im) \/ BadList(vl)]
           inscope == Asked(ImageHits(im.q), vl.ids)
       IN  IF ~ok
           THEN /\ clip' = Fails(call, "validation")
                /\ UNCHANGED extractor
           ELSE IF ~ExtractorReady
           THEN /\ clip' = Fails(call, "init")
                /\ UNCHANGED extractor
           ELSE /\ extractor' = TRUE
                /\ \E r \in SearchResults(ImageHits(im.q),
                                VIDEO_CLIP_IMAGE_SEARCH_TOP_K,
                                IMAGE_SIMILARITY_SEARCH_TOP_K, vl.ids) :
                     clip' = extract_from_image(
                        [call EXCEPT
                           !.inited = ~extractor,
                           !.searched = TRUE,
                           !.stray = Stray(vl, r),
                           !.m = Cardinality(inscope),
                           !.tops = /\ r # <<>>
                                    /\ r[1] \in inscope
                                    /\ \A h \in inscope :
                                         h.similarity <= r[1].similarity],
                        [i \in DOMAIN r |-> FrameResult(r[i], "image")])
    /\ search' = NoSearch
    /\ UNCHANGED <<store, self_video_id, self_video_name, proc, engine,
                   deleted, answerer, api, more>>

get_video_clip_from_image_SearchRaise ==
    /\ extractor
    /\ SearchRaise("image")
    /\ UNCHANGED <<extractor, answerer>>

\* a lookup that takes the path the search saw
get_video_path_Stale(v) == 1

\* VideoClipExtractor._get_video_path: None when it raises
get_video_path(v) ==
    IF WhereId(v) = <<>> \/ WhereId(v)[1].video = None THEN None
    ELSE WhereId(v)[1].video

\* the second half of extract_from_text_query and extract_from_image:
\* _get_video_path, then _extract_clip, whose extract_video_clip writes the
\* window of the source file to a new file.  norow records that no row of
\* the video_id held a path when the lookup ran.
ExtractClip ==
    /\ clip.pc = "extract"
    /\ LET b == clip.best[1]
           c == [clip EXCEPT !.norow =
                    ~\E i \in DOMAIN catalog :
                        /\ catalog[i].video_id = b.video_id
                        /\ catalog[i].video # None]
       IN  clip' = IF get_video_path(b.video_id) = None
                   THEN Fails(c, "lookup")
                   ELSE [c EXCEPT
                           !.pc = "done", !.result = "video",
                           !.text = "path", !.wrote = TRUE,
                           !.cut = <<[video |-> get_video_path(b.video_id),
                                      start_time |-> b.start_time,
                                      end_time |-> b.end_time]>>]
    /\ search' = NoSearch
    /\ UNCHANGED <<store, self_video_id, self_video_name, proc, engine,
                   deleted, extractor, answerer, api, more>>

\* extract_video_clip raises: _extract_clip wraps it in ClipExtractionError
ExtractClipRaise ==
    /\ clip.pc = "extract"
    /\ get_video_path(clip.best[1].video_id) # None
    /\ clip' = Fails(clip, "cut")
    /\ search' = NoSearch
    /\ UNCHANGED <<store, self_video_id, self_video_name, proc, engine,
                   deleted, extractor, answerer, api, more>>

\* the tool's return value goes to the client: the next call may start
ReturnToolResult ==
    /\ clip.pc = "done"
    /\ clip' = NoClip
    /\ search' = NoSearch
    /\ UNCHANGED <<store, self_video_id, self_video_name, proc, engine,
                   deleted, extractor, answerer, api, more>>

\* the name _format_answer_with_sources shows when no name is found
Unknown == None

\* VideoQuestionAnswerer.answer_question and _format_answer_with_sources.
\* has is the outcome of "video_name" in video_result, a membership test
\* on the result set of the store.  from records, for the properties, the
\* display name of the row the caption was derived from.
answer_question(c, caption_info, has) ==
    IF caption_info = <<>>
    THEN [c EXCEPT !.pc = "done", !.result = "text", !.text = "noinfo"]
    ELSE [c EXCEPT
            !.pc = "done", !.result = "text", !.text = "answer",
            !.answer =
               [i \in DOMAIN caption_info |->
                  [video_name |->
                      IF WhereId(caption_info[i].video_id) # <<>> /\ has
                      THEN WhereId(caption_info[i].video_id)[1].video_name
                      ELSE Unknown,
                   from |-> catalog[caption_info[i].rid].video_name,
                   similarity |-> caption_info[i].similarity]]]

\* tools.ask_question_about_video
ask_question_about_video(uq, vl) ==
    /\ clip.pc = "idle"
    /\ LET ok == UserQueryValidator_ok(uq) /\ VideoNamesValidator_ok(vl)
           call == [NoClip EXCEPT !.tool = "ask",
                                  !.bad = BadQuery(uq) \/ BadList(vl)]
       IN  IF ~ok
           THEN /\ clip' = Fails(call, "validation")
                /\ UNCHANGED answerer
           ELSE IF ~AnswererReady
           THEN /\ clip' = Fails(call, "init")
                /\ UNCHANGED answerer
           ELSE /\ answerer' = TRUE
                /\ \E r \in SearchResults(CaptionHits(uq.q),
                                QUESTION_ANSWER_TOP_K,
                                CAPTION_SIMILARITY_SEARCH_TOP_K, vl.ids),
                      has \in BOOLEAN :
                     clip' = answer_question(
                        [call EXCEPT
                           !.inited = ~answerer,
                           !.searched = TRUE,
                           !.stray = Stray(vl, r),
                           !.m = Cardinality(
                                    Asked(CaptionHits(uq.q), vl.ids))],
                        r, has)
    /\ search' = NoSearch
    /\ UNCHANGED <<store, self_video_id, self_video_name, proc, engine,
                   deleted, extractor, api, more>>

ask_question_about_video_SearchRaise ==
    /\ answerer
    /\ SearchRaise("ask")
    /\ UNCHANGED <<extractor, answerer>>

(* =================== API: deletion of a media file ===================== *)
\* models.TaskStatus
PENDING == "pending"
IN_PROGRESS == "in_progress"
COMPLETED == "completed"
TASK_FAILED == "failed"

\* validate_media_path(check_exists = True) returns: the file is on disk
\* (else the request ends with 404 and schedules nothing)
validate_media_path(m) == api.file[m]

\* needs_pixeltable_cleanup: the file is under videos/uploads.  The media
\* of the last id is a file elsewhere under the shared media directory.
needs_pixeltable_cleanup(m) == m # MaxId

\* delete_media_file: the request handler.  The slots are taken in order.
delete_media_file(t, m) ==
    /\ api.task[t].pc = "none"
    /\ \A u \in Tasks : u < t => api.task[u].pc # "none"
    /\ validate_media_path(m)
    /\ api' = [api EXCEPT
                 !.bg_task_states[m] = PENDING,
                 !.task[t] = [NoTask EXCEPT
                                !.pc = "scheduled", !.media_id = m,
                                !.cleanup_db = needs_pixeltable_cleanup(m)]]
    /\ UNCHANGED <<store, self_video_id, self_video_name, proc, engine,
                   search, deleted, others>>

\* a task that goes to the disk at once
FirstPhase_Disk(cleanup_db) == "disk"

\* if cleanup_db: the index phase, else the disk phase
FirstPhase(cleanup_db) == IF cleanup_db THEN "index" ELSE "disk"

\* background_delete_with_phases starts: IN_PROGRESS
StartTask(t) ==
    /\ api.task[t].pc = "scheduled"
    /\ api' = [api EXCEPT
                 !.bg_task_states[api.task[t].media_id] = IN_PROGRESS,
                 !.task[t].pc = FirstPhase(api.task[t].cleanup_db)]
    /\ UNCHANGED <<store, self_video_id, self_video_name, proc, engine,
                   search, deleted, others>>

\* phase 1: call_tool("delete_video", {video_id: media_id}) reaches the
\* server, which runs delete_video
IndexCall(t) ==
    /\ api.task[t].pc = "index"
    /\ delete_video(Main, api.task[t].media_id)
    /\ api' = [api EXCEPT !.task[t].pc = "awaiting"]

\* the call returns
IndexReturn(t) ==
    /\ api.task[t].pc = "awaiting"
    /\ api' = [api EXCEPT !.task[t].pc = "disk",
                          !.task[t].index = "returned"]
    /\ UNCHANGED <<store, self_video_id, self_video_name, proc, engine,
                   search, deleted, others>>

\* the call raises, before or after the server ran it: except Exception
\* logs a warning and goes on
IndexRaise(t) ==
    /\ api.task[t].pc \in {"index", "awaiting"}
    /\ api' = [api EXCEPT !.task[t].pc = "disk",
                          !.task[t].index = "raised"]
    /\ UNCHANGED <<store, self_video_id, self_video_name, proc, engine,
                   search, deleted, others>>

\* phase 2: if file_path.exists(): file_path.unlink(); then COMPLETED
DiskPhase(t) ==
    /\ api.task[t].pc = "disk"
    /\ api' = [api EXCEPT
                 !.file[api.task[t].media_id] = FALSE,
                 !.bg_task_states[api.task[t].media_id] = COMPLETED,
                 !.task[t].pc = "ended",
                 !.task[t].disk = IF api.file[api.task[t].media_id]
                                  THEN "removed" ELSE "gone",
                 !.task[t].final = COMPLETED]
    /\ UNCHANGED <<store, self_video_id, self_video_name, proc, engine,
                   search, deleted, others>>

\* unlink raises: the inner except logs and raises again, the outer except
\* sets FAILED
DiskRaise(t) ==
    /\ api.task[t].pc = "disk"
    /\ api.file[api.task[t].media_id]
    /\ api' = [api EXCEPT
                 !.bg_task_states[api.task[t].media_id] = TASK_FAILED,
                 !.task[t].pc = "ended",
                 !.task[t].disk = "raised",
                 !.task[t].final = TASK_FAILED]
    /\ UNCHANGED <<store, self_video_id, self_video_name, proc, engine,
                   search, deleted, others>>

(* ============================== restart ================================ *)
\* The server process ends while a call is running and is started again:
\* the call is abandoned where it was, the module's singletons
\* (_video_processor, _clip_extractor) are None again, the tables persist.
Restart ==
    /\ \E p \in Procs : ~Free(p)
    /\ proc' = [p \in Procs |-> IdleProc]
    /\ self_video_id' = None
    /\ self_video_name' = None
    /\ engine' = FALSE
    /\ search' = NoSearch
    /\ clip' = NoClip
    /\ answerer' = FALSE
    /\ extractor' = FALSE
    /\ UNCHANGED <<store, deleted, api, more>>

(* ======================== an index that was built ====================== *)
\* The frames view and the audio view are functions of the catalog: the
\* rows the iterators derive from each of its rows.
FramesOf(cat) ==
    UNION {{[rid |-> i, video_id |-> cat[i].video_id, pos |-> k,
             vsim |-> Files[cat[i].video].frames[k][1],
             csim |-> Files[cat[i].video].frames[k][2]]
               : k \in DOMAIN Files[cat[i].video].frames} : i \in DOMAIN cat}

AudioOf(cat) ==
    UNION {{[rid |-> i, video_id |-> cat[i].video_id, pos |-> k,
             sim |-> Files[cat[i].video].chunks[k]]
               : k \in DOMAIN Files[cat[i].video].chunks} : i \in DOMAIN cat}

\* The catalogs that calls of process_video leave when no delete of the
\* store raised: a display name has at most one row, a video_id may be on
\* several rows, a row is Done, or Processing (its ingestion is running or
\* was cut by a restart).
Row(v, path, st) ==
    [video_id |-> v, video |-> path, video_name |-> Files[path].stem,
     status |-> st]

IndexedRows ==
    {Row(v, path, st) : v \in VideoIds, path \in GoodPaths \cup SilentPaths,
                        st \in {PROCESSING, DONE}}

Catalogs ==
    {<<>>} \cup {<<r>> : r \in IndexedRows}
           \cup {<<r[1], r[2]>> :
                   r \in {q \in IndexedRows \X IndexedRows :
                             q[1].video_name # q[2].video_name}}

\* a server that starts on such an index
InitIndexed ==
    /\ catalog \in Catalogs
    /\ frames = FramesOf(catalog)
    /\ audio = AudioOf(catalog)
    /\ self_video_id = None
    /\ self_video_name = None
    /\ proc = [p \in Procs |-> IdleProc]
    /\ engine = FALSE
    /\ search = NoSearch
    /\ deleted = {}
    /\ clip = NoClip
    /\ answerer = FALSE
    /\ extractor = FALSE
    /\ api = NoApi
    /\ pipeline = NoPipeline
    /\ tables = NoTables
    /\ bg = NoBg

(* ================== the external calls of an insert ==================== *)
\* what the steps inside video_table.insert leave alone
base == <<store, self_video_id, self_video_name, proc, engine, search,
          deleted, clip, answerer, extractor, api>>

\* stop_after_attempt(5) of the retry around _sync_infer
STOP_AFTER_ATTEMPT == 5

\* The calls the computed columns and the embedding indices make for the
\* row of a file: a transcription and a text embedding for each audio
\* chunk, a caption, an image embedding and a text embedding for each
\* frame.
UdfCalls(path) ==
    {[fn |-> f, view |-> "audio_chunks", k |-> k] :
        f \in {"transcriptions", "sentence_transformer"},
        k \in DOMAIN Files[path].chunks}
    \cup
    {[fn |-> f, view |-> "frames", k |-> k] :
        f \in {"vision", "clip", "sentence_transformer"},
        k \in DOMAIN Files[path].frames}

\* a text embedding is computed from the transcription or the caption
Ready(c, done) ==
    c.fn = "sentence_transformer"
        => \E d \in done :
              /\ d.view = c.view /\ d.k = c.k
              /\ d.fn = IF c.view = "frames" THEN "vision"
                        ELSE "transcriptions"

\* step 7: video_table.insert starts computing the columns of the new row
insert(path) ==
    /\ pipeline.pc \in {"idle", "inserted", "raised"}
    /\ pipeline' = [NoPipeline EXCEPT !.pc = "running", !.path = path]
    /\ UNCHANGED <<base, tables, bg>>

\* the next call is made for the first time
CallUdf ==
    /\ pipeline.pc = "running"
    /\ \E c \in UdfCalls(pipeline.path) \ pipeline.done :
          /\ Ready(c, pipeline.done)
          /\ pipeline' = [pipeline EXCEPT !.pc = "calling", !.cur = <<c>>,
                                          !.attempt = 1]
    /\ UNCHANGED <<base, tables, bg>>

\* the call returns; after the last one the insert returns
UdfReturns ==
    /\ pipeline.pc = "calling"
    /\ LET done == pipeline.done \cup {pipeline.cur[1]}
       IN  pipeline' = [pipeline EXCEPT
                          !.pc = IF done = UdfCalls(pipeline.path)
                                 THEN "inserted" ELSE "running",
                          !.done = done, !.cur = <<>>]
    /\ UNCHANGED <<base, tables, bg>>

\* the call raises and nothing catches it (any error of transcriptions and
\* of the embeddings; of vision an error that is not a RateLimitError, the
\* RateLimitError of the last attempt, an error of the wait strategy): the
\* insert raises
UdfRaises ==
    /\ pipeline.pc = "calling"
    /\ pipeline' = [pipeline EXCEPT !.pc = "raised",
                                    !.failures = @ + 1]
    /\ UNCHANGED <<base, tables, bg>>

\* vision: _sync_infer raises RateLimitError before the last attempt; the
\* retry waits and calls client.chat.completions.create again
RetrySyncInfer ==
    /\ pipeline.pc = "calling"
    /\ pipeline.cur[1].fn = "vision"
    /\ pipeline.attempt < STOP_AFTER_ATTEMPT
    /\ pipeline' = [pipeline EXCEPT !.attempt = @ + 1,
                                    !.failures = @ + 1]
    /\ UNCHANGED <<base, tables, bg>>

(* ========================== the store setup ============================ *)
\* _process_frames: what it creates, in order, and the if_exists of each
\* call ("error" is the default of add_computed_column)
process_frames ==
    <<[obj |-> "frames_table", if_exists |-> "ignore"],
      [obj |-> "frames_table.resized_frame", if_exists |-> "replace_force"],
      [obj |-> "frames_table.caption", if_exists |-> "error"],
      [obj |-> "frame_index", if_exists |-> "ignore"],
      [obj |-> "caption_index", if_exists |-> "ignore"]>>

\* _process_audio
process_audio ==
    <<[obj |-> "video_table.audio", if_exists |-> "error"],
      [obj |-> "audio_table", if_exists |-> "ignore"],
      [obj |-> "audio_table.transcription", if_exists |-> "error"],
      [obj |-> "audio_table.audio_chunk_text", if_exists |-> "ignore"],
      [obj |-> "audio_index", if_exists |-> "ignore"]>>

\* the catalog, the two segment stores and the three embedding indices
Stores == {"video_table", "frames_table", "audio_table"}
Indices == {"frame_index", "caption_index", "audio_index"}

\* _ensure_dirs_and_tables_exist is invoked (by __init__ and by step 4 of
\* add_video), also after a setup that raised
ensure_dirs_and_tables_exist ==
    /\ tables.pc \in {"idle", "returned", "raised"}
    /\ tables' = [tables EXCEPT !.pc = "video", !.i = 0, !.error = "none"]
    /\ UNCHANGED <<base, pipeline, bg>>

\* the videos table: create_table(if_exists="ignore") or get_table
EnsureVideoTable ==
    /\ tables.pc = "video"
    /\ tables' = [tables EXCEPT !.pc = "frames",
                                !.has = @ \cup {"video_table"}]
    /\ UNCHANGED <<base, pipeline, bg>>

\* if GLOBAL_FRAME_VIEW_NAME not in pxt.list_tables(): _process_frames()
\* else get_table
EnsureFramesView ==
    /\ tables.pc = "frames"
    /\ tables' = IF "frames_table" \notin tables.has
                 THEN [tables EXCEPT !.pc = "process_frames", !.i = 1]
                 ELSE [tables EXCEPT !.pc = "audio"]
    /\ UNCHANGED <<base, pipeline, bg>>

\* if GLOBAL_AUDIO_CHUNKS_VIEW_NAME not in pxt.list_tables():
\* _process_audio() else get_table
EnsureAudioView ==
    /\ tables.pc = "audio"
    /\ tables' = IF "audio_table" \notin tables.has
                 THEN [tables EXCEPT !.pc = "process_audio", !.i = 1]
                 ELSE [tables EXCEPT !.pc = "returned"]
    /\ UNCHANGED <<base, pipeline, bg>>

\* the calls of the function the setup is in, and where it goes next
Creating == IF tables.pc = "process_frames" THEN process_frames
            ELSE process_audio
AfterCreating == IF tables.pc = "process_frames" THEN "audio"
                 ELSE "returned"

\* one create_view / add_computed_column / add_embedding_index call: it
\* raises when the object exists and if_exists is "error"
Create ==
    /\ tables.pc \in {"process_frames", "process_audio"}
    /\ LET call == Creating[tables.i]
       IN  IF call.obj \in tables.has /\ call.if_exists = "error"
           THEN tables' = [tables EXCEPT !.pc = "raised",
                                         !.error = "exists"]
           ELSE tables' = [tables EXCEPT
                             !.has = @ \cup {call.obj},
                             !.i = IF tables.i = Len(Creating)
                                   THEN 0 ELSE @ + 1,
                             !.pc = IF tables.i = Len(Creating)
                                    THEN AfterCreating ELSE @]
    /\ UNCHANGED <<base, pipeline, bg>>

\* the call raises for another reason (the database, the download of an
\* embedding model): it creates nothing and the setup ends there
CreateRaise ==
    /\ tables.pc \in {"process_frames", "process_audio"}
    /\ tables' = [tables EXCEPT !.pc = "raised", !.error = "other"]
    /\ UNCHANGED <<base, pipeline, bg>>

(* =================== API: processing of a video ======================== *)
\* the files a request may name: the valid ones, one that is not on disk
\* and one that cannot be decoded
Uploads ==
    GoodPaths \cup {f \in Paths : ~Files[f].exists \/ ~Files[f].decodable}

\* POST /process-video: PENDING, and the task is scheduled
process_video_request(m, path) ==
    /\ bg.pc \in {"none", "ended"}
    /\ Len(catalog) < MaxRows
    /\ api' = [api EXCEPT !.bg_task_states[m] = PENDING]
    /\ bg' = [NoBg EXCEPT !.pc = "scheduled", !.media_id = m,
                          !.path = path]
    /\ UNCHANGED <<store, self_video_id, self_video_name, proc, engine,
                   search, deleted, clip, answerer, extractor, pipeline,
                   tables>>

\* background_process_video starts: IN_PROGRESS
background_process_video ==
    /\ bg.pc = "scheduled"
    /\ api' = [api EXCEPT !.bg_task_states[bg.media_id] = IN_PROGRESS]
    /\ bg' = [bg EXCEPT !.pc = "exists"]
    /\ UNCHANGED <<store, self_video_id, self_video_name, proc, engine,
                   search, deleted, clip, answerer, extractor, pipeline,
                   tables>>

\* if not Path(video_path).exists(): FAILED, return
FileMissing ==
    /\ bg.pc = "exists"
    /\ ~Files[bg.path].exists
    /\ api' = [api EXCEPT !.bg_task_states[bg.media_id] = TASK_FAILED]
    /\ bg' = [bg EXCEPT !.pc = "ended", !.tool = "missing",
                        !.final = TASK_FAILED]
    /\ UNCHANGED <<store, self_video_id, self_video_name, proc, engine,
                   search, deleted, clip, answerer, extractor, pipeline,
                   tables>>

\* mcp_client.call_tool("process_video", ...) is sent to a handler of the
\* server that is free
CallTool ==
    /\ bg.pc = "exists"
    /\ Files[bg.path].exists
    /\ Free(Main)
    /\ proc' = [proc EXCEPT ![Main] = IdleProc]
    /\ bg' = [bg EXCEPT !.pc = "calling"]
    /\ UNCHANGED <<store, self_video_id, self_video_name, engine, search,
                   deleted, clip, answerer, extractor, api, pipeline,
                   tables>>

\* the server starts the tool with video_id = media_id
ToolStarts ==
    /\ bg.pc = "calling"
    /\ tool_process_video(Main, bg.path, bg.media_id)

\* what call_tool returns for the tool's result: an object that wraps the
\* content of the answer, here the list of its content blocks
CallToolResult(ret) == <<ret>>

\* if mcp_response: the truth value of the returned object
Truthy(mcp_response) == Len(mcp_response) > 0

\* the call returns: COMPLETED if mcp_response, else FAILED
ToolReturns ==
    /\ bg.pc = "calling"
    /\ proc[Main].pc = "done"
    /\ LET status == IF Truthy(CallToolResult(proc[Main].ret))
                     THEN COMPLETED ELSE TASK_FAILED
       IN  /\ api' = [api EXCEPT !.bg_task_states[bg.media_id] = status]
           /\ bg' = [bg EXCEPT !.pc = "ended", !.tool = proc[Main].ret,
                               !.final = status]
    /\ UNCHANGED <<store, self_video_id, self_video_name, proc, engine,
                   search, deleted, clip, answerer, extractor, pipeline,
                   tables>>

\* the call raises (no connection, an error answer of the server), before
\* or after the server ran the tool: except Exception sets FAILED
CallToolRaise ==
    /\ bg.pc = "calling"
    /\ api' = [api EXCEPT !.bg_task_states[bg.media_id] = TASK_FAILED]
    /\ bg' = [bg EXCEPT !.pc = "ended", !.tool = "raised",
                        !.final = TASK_FAILED]
    /\ UNCHANGED <<store, self_video_id, self_video_name, proc, engine,
                   search, deleted, clip, answerer, extractor, pipeline,
                   tables>>

(* ========================== specifications ============================= *)
\* Sequential calls of one handler.  The ingestion itself may fail (the
\* insert, marking Done) and the server may restart in the middle of a
\* call; the catalog's queries and deletes and the updates of the
\* exception handler do not raise.
NextCalls ==
    \/ \E c \in Calls : process_video(Main, c[1], c[2])
    \/ EnsureTables(Main)
    \/ CheckAlreadyAdded(Main)
    \/ CollectExisting(Main)
    \/ CleanupOld(Main)
    \/ SetVideoId(Main)
    \/ InsertVideo(Main)
    \/ InsertVideoRaise(Main)
    \/ MarkDone(Main)
    \/ MarkDoneRaise(Main)
    \/ ExcCleanup(Main)
    \/ MarkFailed(Main)
    \/ \E v \in VideoIds \cup {None} : tool_delete_video(Main, v)

\* the searches run between any two steps of a handler
NextSearch ==
    \/ InitEngine
    \/ SpeechSearchCall
    \/ ImageSearchCall
    \/ CaptionSearchCall
    \/ SearchReturns

Next == NextCalls \/ NextSearch \/ Restart

Spec == Init /\ [][Next]_vars

\* The sequential calls where every store operation of the two handlers
\* may raise.
NextFault ==
    \/ NextCalls
    \/ EnsureTablesRaise(Main)
    \/ CheckAlreadyAddedRaise(Main)
    \/ CollectExistingRaise(Main)
    \/ CleanupOldRaise(Main)
    \/ ExcCleanupRaise(Main)
    \/ MarkFailedRaise(Main)
    \/ \E v \in VideoIds : delete_video_CollectRaise(Main, v)
    \/ \E v \in VideoIds : delete_video_CleanupRaise(Main, v)

SpecFault == Init /\ [][NextFault]_vars

\* The five searches of the engine over an index that was built, and the
\* deletes that shrink it.
NextIndexSearch ==
    \/ InitEngine
    \/ \E k \in 0..MaxTopK, ids \in SUBSET VideoIds : search_by_speech(k, ids)
    \/ \E k \in 0..MaxTopK, ids \in SUBSET VideoIds : search_by_image(k, ids)
    \/ \E k \in 0..MaxTopK, ids \in SUBSET VideoIds : search_by_caption(k, ids)
    \/ \E k \in 0..MaxTopK, ids \in SUBSET VideoIds : get_speech_info(k, ids)
    \/ \E k \in 0..MaxTopK, ids \in SUBSET VideoIds : get_caption_info(k, ids)
    \/ SearchReturns
    \/ \E v \in VideoIds : tool_delete_video(Main, v)

SpecSearch == InitIndexed /\ [][NextIndexSearch]_vars

\* The clip and question tools over an index that was built.  A delete may
\* run between the search of a clip call and the lookup of its file; a
\* search and the cutting of the clip may raise.
NextClip ==
    \/ \E uq \in UserQueries, vl \in VideoLists :
           get_video_clip_from_user_query(uq, vl)
    \/ \E im \in Images, vl \in VideoLists :
           get_video_clip_from_image(im, vl)
    \/ \E uq \in UserQueries, vl \in VideoLists :
           ask_question_about_video(uq, vl)
    \/ get_video_clip_from_user_query_SearchRaise
    \/ get_video_clip_from_image_SearchRaise
    \/ ask_question_about_video_SearchRaise
    \/ ExtractClip
    \/ ExtractClipRaise
    \/ ReturnToolResult
    \/ \E v \in VideoIds : tool_delete_video(Main, v)

SpecClip == InitIndexed /\ [][NextClip]_vars

\* The deletion tasks of the API over an index that was built: the steps
\* of the tasks interleave, the call to the server and the removal of the
\* file may raise.
NextApi ==
    \/ \E t \in Tasks, m \in VideoIds : delete_media_file(t, m)
    \/ \E t \in Tasks : StartTask(t)
    \/ \E t \in Tasks : IndexCall(t)
    \/ \E t \in Tasks : IndexReturn(t)
    \/ \E t \in Tasks : IndexRaise(t)
    \/ \E t \in Tasks : DiskPhase(t)
    \/ \E t \in Tasks : DiskRaise(t)

SpecApi == InitIndexed /\ [][NextApi]_vars

\* Two requests reach a server whose index was built, one for each handler
\* of the server: the handlers work on the one VideoProcessor at the same
\* time, the steps of their calls interleave, no store operation raises.
ValidCalls == (GoodPaths \cup SilentPaths) \X VideoIds

NextOverlap ==
    \E p \in Procs :
        \/ \E c \in ValidCalls : tool_process_video(p, c[1], c[2])
        \/ EnsureTables(p)
        \/ CheckAlreadyAdded(p)
        \/ CollectExisting(p)
        \/ CleanupOld(p)
        \/ SetVideoId(p)
        \/ InsertVideo(p)
        \/ MarkDone(p)

SpecOverlap == InitIndexed /\ [][NextOverlap]_vars

\* The calls inside the insert of step 7, for the rows of the valid files.
NextInsert ==
    \/ \E path \in GoodPaths \cup SilentPaths : insert(path)
    \/ CallUdf
    \/ UdfReturns
    \/ UdfRaises
    \/ RetrySyncInfer

SpecInsert == Init /\ [][NextInsert]_vars

\* The store setup, invoked again and again, where a call of
\* _process_frames and _process_audio may raise.
NextSetup ==
    \/ ensure_dirs_and_tables_exist
    \/ EnsureVideoTable
    \/ EnsureFramesView
    \/ EnsureAudioView
    \/ Create
    \/ CreateRaise

SpecSetup == Init /\ [][NextSetup]_vars

\* The processing tasks of the API, one at a time, over an index that was
\* built (a row may be Processing: its run was cut), and the handler of
\* the server that runs the tool for them; the ingestion may fail.
NextProcess ==
    \/ \E m \in VideoIds, path \in Uploads : process_video_request(m, path)
    \/ background_process_video
    \/ FileMissing
    \/ CallTool
    \/ ToolStarts
    \/ ToolReturns
    \/ CallToolRaise
    \/ EnsureTables(Main)
    \/ CheckAlreadyAdded(Main)
    \/ CollectExisting(Main)
    \/ CleanupOld(Main)
    \/ SetVideoId(Main)
    \/ InsertVideo(Main)
    \/ InsertVideoRaise(Main)
    \/ MarkDone(Main)
    \/ MarkDoneRaise(Main)
    \/ ExcCleanup(Main)
    \/ MarkFailed(Main)

SpecProcess == InitIndexed /\ [][NextProcess]_vars

TypeOK ==
    /\ \A i \in DOMAIN catalog :
          /\ catalog[i].video_id \in VideoIds
          /\ catalog[i].video_name \in Names
          /\ catalog[i].video \in Paths
          /\ catalog[i].status \in VideoStatus
    /\ \A f \in frames : f.rid \in DOMAIN catalog
    /\ \A a \in audio : a.rid \in DOMAIN catalog
    /\ self_video_id \in VideoIds \cup {None}
    /\ self_video_name \in Names \cup {None}
    /\ pipeline.attempt \in 0..STOP_AFTER_ATTEMPT
    /\ pipeline.done \subseteq UdfCalls(pipeline.path)
    /\ tables.has \subseteq
          {process_frames[i].obj : i \in DOMAIN process_frames}
            \cup {process_audio[i].obj : i \in DOMAIN process_audio}
            \cup Stores
    /\ bg.media_id \in VideoIds \cup {None}
    /\ bg.final \in {"none", COMPLETED, TASK_FAILED}

(* ============================ properties =============================== *)
M == proc[Main]
Stem(path) == Files[path].stem
Hits == {search.results[i] : i \in DOMAIN search.results}
RowsNamed(n) == {i \in DOMAIN catalog : catalog[i].video_name = n}
RowsOfId(v) == {i \in DOMAIN catalog : catalog[i].video_id = v}
Returned(op) == M.pc = "done" /\ M.op = op

\* a file that the validation of process_video has to reject
BadInput(path) ==
    LET f == Files[path]
    IN  \/ f.blank \/ ~f.inside \/ ~f.exists \/ ~f.isfile \/ ~f.readable
        \/ f.size = 0 \/ f.size > MaxSizeKiB \/ ~f.extok
        \/ ~f.streams \/ ~f.decodable

C2_StatusTransitions ==
    [][Len(catalog') = Len(catalog) =>
          \A i \in DOMAIN catalog :
              catalog'[i].status # catalog[i].status =>
                  /\ catalog[i].status = PROCESSING
                  /\ catalog'[i].status \in {DONE, FAILED}]_vars

\* C3: when process_video on a valid file whose display name had only
\* not-Done rows returns true, every catalog row, frame and chunk of that
\* display name carries the video_id of the call.  Stated for the calls
\* in which no store operation raised, the purge included.
C3_IncompletePurged ==
    (Returned("add") /\ ~BadInput(M.path) /\ M.preNotDone /\ ~M.preDone
        /\ M.raised = "none" /\ M.ret = "true")
        => \A i \in RowsNamed(Stem(M.path)) :
               /\ catalog[i].video_id = M.vid
               /\ \A f \in frames : f.rid = i => f.video_id = M.vid
               /\ \A a \in audio : a.rid = i => a.video_id = M.vid

\* C4: the catalog holds at most one row per video_id.
C4_UniqueVideoId ==
    \A i, j \in DOMAIN catalog :
        catalog[i].video_id = catalog[j].video_id => i = j

C6_FailedVisible ==
    (Returned("add") /\ M.registered /\ M.ret = "false")
        => \E i \in RowsOfId(M.vid) : catalog[i].status = FAILED

\* C7: every segment a search returns belongs to a video whose catalog
\* status is Done.
C7_SearchOnlyDone ==
    \A h \in Hits : catalog[h.rid].status = DONE

\* C8: a process_video call on a file that fails the validation returns
\* false at once, and no step of it changes the catalog or a view.
C8_InvalidNoWrite ==
    (M.op = "add" /\ BadInput(M.path))
        => M.pc = "done" /\ M.ret = "false" /\ ~M.touched

\* an unsupported extension was rejected while the catalog held a video
C8_Witness ==
    /\ Returned("add") /\ ~Files[M.path].extok /\ M.ret = "false"
    /\ catalog # <<>>

\* C9: delete_video with a video_id that has no catalog row returns false
\* and changes neither the catalog nor a view.
C9_DeleteUnknown ==
    (Returned("del") /\ ~M.preHasId) => M.ret = "false" /\ ~M.touched

\* an unknown, well-formed id was passed while the catalog held a video
C9_Witness ==
    /\ Returned("del") /\ ~M.preHasId /\ M.vid # None /\ M.ret = "false"
    /\ catalog # <<>>

InsertedBefore(g, h) == g.rid < h.rid \/ (g.rid = h.rid /\ g.pos < h.pos)

\* C11: a search returns at most top_k results (the configured default when
\* top_k is absent), in descending order of similarity, and results of
\* equal similarity in the order their segments were inserted.
C11_RankedStable ==
    /\ search.within
    /\ \A i, j \in DOMAIN search.results :
           i < j =>
               \/ search.results[i].similarity > search.results[j].similarity
               \/ /\ search.results[i].similarity
                        = search.results[j].similarity
                  /\ InsertedBefore(search.results[i], search.results[j])

\* C12: every segment a search returns was asked for (its video_id is in
\* video_ids when that is not empty), and the result is the best of the
\* segments asked for: the filter comes before the ranking and the cut,
\* and without video_ids the candidates are all the segments of the view.
C12_ScopedSearch ==
    search.inscope /\ search.complete

\* a scoped search has returned a chunk while a chunk of another video,
\* outside the scope, scores higher
C12_Witness ==
    /\ search.kind = "speech"
    /\ Hits # {}
    /\ \E a \in audio : \A h \in Hits :
           a.sim > h.similarity /\ a.video_id # h.video_id

\* C13: in a text-query clip search where the speech search and the caption
\* search both return results, the clip is cut from the window of the
\* caption result when its similarity is strictly higher than that of the
\* speech result, and from the window of the speech result otherwise (so
\* also when the two are equal).
C13_BestOfBoth ==
    (clip.tool = "text" /\ clip.sp # <<>> /\ clip.cp # <<>>) =>
        /\ clip.best = IF clip.cp[1].similarity > clip.sp[1].similarity
                       THEN <<clip.cp[1]>>
                       ELSE <<clip.sp[1]>>
        /\ clip.wrote =>
              /\ clip.cut[1].start_time = clip.best[1].start_time
              /\ clip.cut[1].end_time = clip.best[1].end_time

\* a clip was cut from the speech window on equal top similarities
C13_Witness ==
    /\ clip.tool = "text"
    /\ clip.wrote
    /\ clip.sp # <<>>
    /\ clip.cp # <<>>
    /\ clip.sp[1].similarity = clip.cp[1].similarity
    /\ clip.best[1].signal = "speech"
    /\ clip.cut[1].start_time = clip.sp[1].start_time

\* C14: a text-query clip search whose two searches returned: when both
\* returned nothing the tool returns the text "No matching video segments
\* found..."; when exactly one of them returned results, the first result
\* of that one is the clip to cut, whatever its similarity is.
C14_OneSignalEmpty ==
    (clip.tool = "text" /\ clip.searched /\ clip.raised # "search") =>
        /\ (clip.sp = <<>> /\ clip.cp = <<>>) =>
              /\ clip.pc = "done"
              /\ clip.result = "text"
              /\ clip.text = "nomatch"
              /\ ~clip.wrote
        /\ (clip.sp # <<>> /\ clip.cp = <<>>) => clip.best = <<clip.sp[1]>>
        /\ (clip.sp = <<>> /\ clip.cp # <<>>) => clip.best = <<clip.cp[1]>>

\* C15: an image-query clip search whose search returned: with no frame in
\* the scope the tool returns the "no match" text and writes no clip;
\* otherwise the clip is cut from a frame of the scope that no frame of the
\* scope beats in visual similarity, and its window is exactly
\* [pos_msec/1000 - 5.0, pos_msec/1000 + 5.0] seconds.
C15_ImageWindow ==
    (clip.tool = "image" /\ clip.searched /\ clip.raised # "search") =>
        IF clip.m = 0
        THEN /\ clip.pc = "done"
             /\ clip.result = "text"
             /\ clip.text = "novisual"
             /\ ~clip.wrote
        ELSE /\ clip.tops
             /\ clip.best # <<>>
             /\ clip.best[1].start_time = clip.best[1].pos_msec - 5000
             /\ clip.best[1].end_time = clip.best[1].pos_msec + 5000
             /\ clip.wrote =>
                   /\ clip.cut[1].start_time = clip.best[1].pos_msec - 5000
                   /\ clip.cut[1].end_time = clip.best[1].pos_msec + 5000

\* a clip was cut around the best of several frames
C15_Witness ==
    /\ clip.tool = "image"
    /\ clip.wrote
    /\ clip.m > 1
    /\ clip.best[1].pos_msec > 0

\* C16: ask_question_about_video whose search returned, with m captions in
\* the scope: for m = 0 the text "No relevant information found..."; else
\* an answer of exactly min(QUESTION_ANSWER_TOP_K, m) entries in descending
\* order of similarity, each showing the display name of the video its
\* caption was derived from.
C16_AnswerSources ==
    (clip.tool = "ask" /\ clip.searched /\ clip.raised = "none") =>
        IF clip.m = 0
        THEN clip.text = "noinfo"
        ELSE /\ clip.text = "answer"
             /\ Len(clip.answer) = (IF clip.m < QUESTION_ANSWER_TOP_K
                                    THEN clip.m ELSE QUESTION_ANSWER_TOP_K)
             /\ \A i, j \in DOMAIN clip.answer : i < j =>
                   clip.answer[i].similarity >= clip.answer[j].similarity
             /\ \A i \in DOMAIN clip.answer :
                   clip.answer[i].video_name = clip.answer[i].from

\* C17: the three tools never raise: a call that has ended returned a text
\* or a video result, a call in which a step raised returned a text result
\* and wrote no clip, and a video result is returned only when a clip file
\* was written.
C17_ToolsNeverRaise ==
    /\ clip.result # "raised"
    /\ clip.pc = "done" => clip.result \in {"text", "video"}
    /\ clip.raised # "none" => (clip.result = "text" /\ ~clip.wrote)
    /\ clip.result = "video" => (clip.wrote /\ clip.cut # <<>>)

\* a search raised and the caller got a text
C17_Witness ==
    /\ clip.raised = "search"
    /\ clip.pc = "done"
    /\ clip.result = "text"

\* C18: a tool called with a query that is empty, blank or longer than 2000
\* characters after trimming, an image that is empty, not decodable, longer
\* than 10MB encoded or shorter than 100 bytes decoded, or a video_ids list
\* of more than 20 entries returns the text "Invalid input: ..." and has
\* constructed no search engine, run no search and written no clip.
C18_ValidationFirst ==
    clip.bad =>
        /\ clip.pc = "done"
        /\ clip.result = "text"
        /\ clip.text = "invalid"
        /\ ~clip.inited
        /\ ~clip.searched
        /\ ~clip.wrote

\* a rejected call on a server whose extractor could have been constructed
C18_Witness ==
    /\ clip.bad
    /\ clip.tool = "text"
    /\ clip.text = "invalid"
    /\ ~extractor
    /\ Len(catalog) # 0
    /\ frames # {}
    /\ audio # {}

\* C19: when no row of the winning segment's video_id holds a path at the
\* time of the lookup, the extraction fails with ClipExtractionError, no
\* clip file is written and the tool returns a text result.
C19_VideoNotFound ==
    clip.norow =>
        /\ clip.pc = "done"
        /\ clip.raised = "lookup"
        /\ clip.result = "text"
        /\ clip.text = "notfound"
        /\ ~clip.wrote
        /\ clip.cut = <<>>

\* the video of the winning segment was deleted after the search ran
C19_Witness ==
    /\ clip.norow
    /\ clip.best # <<>>
    /\ clip.best[1].video_id \in deleted
    /\ clip.result = "text"

\* C20: in every deletion task the disk phase starts only after the
\* delete_video call for its media_id has returned or raised (when the
\* file needs the index cleanup), the disk phase is attempted in every task
\* that ends, also when the index phase raised, the task ends COMPLETED when
\* the file was removed or was already gone, and it ends FAILED exactly
\* when removing the file raised.
C20_TwoPhaseDelete ==
    \A t \in Tasks :
        /\ (api.task[t].pc \in {"disk", "ended"} /\ api.task[t].cleanup_db)
              => api.task[t].index \in {"returned", "raised"}
        /\ api.task[t].disk # "none" => api.task[t].pc = "ended"
        /\ api.task[t].pc = "ended" => api.task[t].disk # "none"
        /\ api.task[t].disk \in {"removed", "gone"}
              => api.task[t].final = COMPLETED
        /\ api.task[t].final = TASK_FAILED <=> api.task[t].disk = "raised"
        /\ api.task[t].disk = "removed" => ~api.file[api.task[t].media_id]

\* a task whose index phase raised and whose file was already gone ended
\* COMPLETED
C20_Witness ==
    \E t \in Tasks :
        /\ api.task[t].index = "raised"
        /\ api.task[t].disk = "gone"
        /\ api.task[t].final = COMPLETED
        /\ api.bg_task_states[api.task[t].media_id] = COMPLETED

\* C21: an error raised by the status update of an ingestion run (to Done)
\* is swallowed: the run still returns true and its row is not purged.
C21_StatusNeverFails ==
    (Returned("add") /\ M.raised = "mark_done")
        => /\ M.ret = "true"
           /\ HasId(M.vid)

\* handler p has returned from a call of op
ReturnedBy(p, op) == proc[p].pc = "done" /\ proc[p].op = op

\* C22: when two runs of process_video for the same display name overlapped
\* and both have returned, the catalog holds one row of that display name
\* and every frame and chunk of that name belongs to this row.
C22_LoserOverwritten ==
    \A p, q \in Procs :
        (/\ p # q
         /\ ReturnedBy(p, "add") /\ ReturnedBy(q, "add")
         /\ proc[p].overlap /\ proc[q].overlap
         /\ Stem(proc[p].path) = Stem(proc[q].path))
            => Cardinality(RowsNamed(Stem(proc[p].path))) = 1

\* C23: inside an insert every external call (transcription, captioning,
\* embedding) is made at most once, and once a call has failed the insert
\* has raised: no call is made again after a failure.
C23_NoRetries ==
    /\ pipeline.attempt <= 1
    /\ pipeline.failures > 0 => pipeline.pc = "raised"

\* C24: a setup never raises because a table, view, column or index already
\* exists, whatever earlier setups, complete or interrupted, left behind,
\* and when it has returned the catalog, both segment stores and the three
\* embedding indices exist.
C24_SetupIdempotent ==
    /\ tables.error # "exists"
    /\ tables.pc = "returned" => (Stores \cup Indices) \subseteq tables.has

\* C25: when two runs of process_video for files of different display
\* names, called with different video_ids, overlapped, both inserted a row
\* and both returned true, the catalog holds for each of them a row with
\* the video_id of its call, and every such row is Done.
C25_OverlapIndependent ==
    \A p, q \in Procs :
        (/\ p # q
         /\ ReturnedBy(p, "add") /\ ReturnedBy(q, "add")
         /\ proc[p].overlap /\ proc[q].overlap
         /\ proc[p].registered /\ proc[q].registered
         /\ proc[p].ret = "true" /\ proc[q].ret = "true"
         /\ Stem(proc[p].path) # Stem(proc[q].path)
         /\ proc[p].vid # proc[q].vid)
            => /\ RowsOfId(proc[p].vid) # {}
               /\ \A i \in RowsOfId(proc[p].vid) : catalog[i].status = DONE

\* the frames and the chunks that carry video_id v, whatever their row
SegmentsOf(v) ==
    <<{<<f.pos, f.vsim, f.csim>> : f \in {g \in frames : g.video_id = v}},
      {<<a.pos, a.sim>> : a \in {g \in audio : g.video_id = v}}>>

\* C26: the steps with which a failing run of process_video handles its
\* error (the purge and the marking as Failed of the except block) leave
\* the catalog rows, the frames and the chunks of every video_id other than
\* the one passed to the call as they were.
C26_FailureFrame ==
    [][(M.op = "add" /\ M.pc \in {"exc_cleanup", "exc_mark"})
          => \A v \in VideoIds \ {M.vid} :
                /\ WhereId(v)' = WhereId(v)
                /\ SegmentsOf(v)' = SegmentsOf(v)]_vars

\* C27: when process_video(video_path, video_id) has returned true, the
\* catalog holds a row with that video_id whose status is Done.
C27_TrueMeansRegistered ==
    (Returned("add") /\ M.ret = "true")
        => \E i \in RowsOfId(M.vid) : catalog[i].status = DONE

\* C28: when delete_video(video_id) has returned true, no catalog row
\* carries that video_id, also when the delete of the table raised during
\* the call.
C28_DeletedIsGone ==
    (Returned("del") /\ M.ret = "true") => ~HasId(M.vid)

\* C30: when the caller of get_video_clip_from_user_query,
\* get_video_clip_from_image or ask_question_about_video passes a
\* video_ids list that is not empty, every segment the searches of the call
\* return belongs to a video_id of the list.
C30_ScopeRespected == ~clip.stray

\* C29: a processing task that has ended wrote COMPLETED or FAILED last;
\* it wrote COMPLETED only if the process_video tool returned true, and it
\* wrote FAILED when the tool returned false, when the file was missing and
\* when the call raised.
C29_CompletedOnlyOnSuccess ==
    bg.pc = "ended"
        => /\ bg.final \in {COMPLETED, TASK_FAILED}
           /\ api.bg_task_states[bg.media_id] = bg.final
           /\ bg.final = COMPLETED => bg.tool = "true"
           /\ bg.tool \in {"false", "missing", "raised"}
                 => bg.final = TASK_FAILED

====
